---- MODULE Spec2Model ----
(***************************************************************************)
(* A model of scrape_cacau_prices.py: the price parser (parse_price,       *)
(* fetch_cacau_prices), the snapshot writer (update_prices_json), the      *)
(* history merge (update_history_json) and the orchestration (main).       *)
(*                                                                         *)
(* Representation.                                                         *)
(*  - A text (a table cell, a label) is a sequence of one-character        *)
(*    strings, so that strip / replace / substring tests are computed.     *)
(*  - An optional number (Python None or a float) is None == <<>> or       *)
(*    Some(v) == <<v>>.                                                    *)
(*  - A price is an integer count of 1/1500 BRL (1/15 of a centavo), so    *)
(*    that the divisions by 15.0 of the code are exact on every price with *)
(*    at most two decimals.                                                *)
(*  - A date string "YYYY-MM-DD" is its day number: the lexicographic      *)
(*    order of such strings is the order of the days.  An ISO timestamp is *)
(*    the pair <<day, time>>.                                              *)
(***************************************************************************)
EXTENDS Integers, Sequences, FiniteSets, TLC

VARIABLES rows, now, prices, snapshot, hist, prev, pc, written, nruns

vars == <<rows, now, prices, snapshot, hist, prev, pc, written, nruns>>

-----------------------------------------------------------------------------
(* Bounds of the model. *)

\* Longest table (number of <tr> rows) drawn for a fetch.
MaxRows == 3

\* Days are 1..MaxDate.
MaxDate == 12

\* Longest sequence of update_history_json runs from a fresh store.
MaxRuns == 2

(* Program constants. *)

\* 1 arroba = 15 kg.
ArrobaKg == 15

\* 1 saca = 60 kg.
SacaKg == 60

\* The history keeps the 10 most recent distinct dates.
KeepDates == 10

-----------------------------------------------------------------------------
(* Optional values and texts. *)

None == << >>

Some(v) == <<v>>

Range(s) == { s[i] : i \in 1..Len(s) }

UpperChars == <<"A","B","C","D","E","F","G","H","I","J","K","L","M","N","O","P","Q","R","S","T","U","V","W","X","Y","Z","Á","Ç","Ã","É">>

LowerChars == <<"a","b","c","d","e","f","g","h","i","j","k","l","m","n","o","p","q","r","s","t","u","v","w","x","y","z","á","ç","ã","é">>

Digits == <<"0","1","2","3","4","5","6","7","8","9">>

\* The lower-case letter of each upper-case letter.
LowerMap ==
    [c \in Range(UpperChars) |-> LowerChars[CHOOSE i \in 1..Len(UpperChars) : UpperChars[i] = c]]

\* str.lower() on one character.
LowerChar(c) == IF c \in DOMAIN LowerMap THEN LowerMap[c] ELSE c

\* str.lower()
Lower(s) == [i \in 1..Len(s) |-> LowerChar(s[i])]

\* pat in s
Contains(s, pat) ==
    \E i \in 1..(Len(s) - Len(pat) + 1) : SubSeq(s, i, i + Len(pat) - 1) = pat

RECURSIVE LStrip(_)
\* str.lstrip()
LStrip(s) == IF s # << >> /\ Head(s) = " " THEN LStrip(Tail(s)) ELSE s

RECURSIVE RStrip(_)
\* str.rstrip()
RStrip(s) == IF s # << >> /\ s[Len(s)] = " " THEN RStrip(SubSeq(s, 1, Len(s) - 1)) ELSE s

\* str.strip(): the leading and trailing blanks removed.
Strip(s) == RStrip(LStrip(s))

\* str.replace(c, "")
RemoveChar(s, c) == SelectSeq(s, LAMBDA ch : ch # c)

\* str.replace(a, b) for single characters
ReplaceChar(s, a, b) == [i \in 1..Len(s) |-> IF s[i] = a THEN b ELSE s[i]]

\* The value of each digit.
DigitMap == [c \in Range(Digits) |-> (CHOOSE i \in 1..Len(Digits) : Digits[i] = c) - 1]

IsDigit(c) == c \in DOMAIN DigitMap

DigitVal(c) == DigitMap[c]

RECURSIVE DigitsVal(_)
\* The number a sequence of digits writes (0 for none).
DigitsVal(s) ==
    IF s = << >> THEN 0
    ELSE 10 * DigitsVal(SubSeq(s, 1, Len(s) - 1)) + DigitVal(s[Len(s)])

\* The text without its sign.
Unsigned(s) == IF s # << >> /\ s[1] \in {"+", "-"} THEN Tail(s) ELSE s

\* float(s) succeeds: an optional sign, digits with at most one point, at
\* least one digit (the decimal literals; no text of the model writes an
\* exponent, inf or nan).
IsFloat(s) ==
    LET u == Unsigned(s)
    IN  /\ \A i \in 1..Len(u) : IsDigit(u[i]) \/ u[i] = "."
        /\ Cardinality({ i \in 1..Len(u) : u[i] = "." }) <= 1
        /\ \E i \in 1..Len(u) : IsDigit(u[i])

\* float(s), in units of 1/1500, for a literal with at most two decimals.
FloatValue(s) ==
    LET u    == Unsigned(s)
        dot  == IF \E i \in 1..Len(u) : u[i] = "."
                THEN CHOOSE i \in 1..Len(u) : u[i] = "."
                ELSE Len(u) + 1
        ip   == SubSeq(u, 1, dot - 1)
        fp   == SubSeq(u, dot + 1, Len(u))
        cents == DigitsVal(ip) * 100
                 + (IF Len(fp) = 0 THEN 0
                    ELSE IF Len(fp) = 1 THEN 10 * DigitsVal(fp)
                    ELSE DigitsVal(SubSeq(fp, 1, 2)))
        sign == IF s # << >> /\ s[1] = "-" THEN -1 ELSE 1
    IN  sign * cents * 15

-----------------------------------------------------------------------------
(* parse_price *)

\* cleaned = text.strip().replace(".", "").replace(",", ".")
Cleaned(text) == ReplaceChar(RemoveChar(Strip(text), "."), ",", ".")

\* The text is a number parse_price can read.
CanParse(text) == text # << >> /\ IsFloat(Cleaned(text))

\* parse_price: 0.0 for an empty text and for a text float() rejects.
parse_price(text) ==
    IF text = << >> THEN 0
    ELSE IF IsFloat(Cleaned(text)) THEN FloatValue(Cleaned(text))
    ELSE 0

-----------------------------------------------------------------------------
(* fetch_cacau_prices: the loop over the rows, then the conversions. *)

\* The three locals of the loop before the first row.
NoPrices == [bahia_arroba |-> None, para_kg |-> None, para_arroba |-> None]

\* cells = [c.get_text(strip=True) for c in row.find_all(["td", "th"])]
Cells(row) == [i \in 1..Len(row) |-> Strip(row[i])]

\* "bahia" in name
IsBahia(name) == Contains(name, <<"b","a","h","i","a">>)

\* "pará" in name or "para" in name
IsPara(name) == Contains(name, <<"p","a","r","á">>) \/ Contains(name, <<"p","a","r","a">>)

\* "/arroba" in name or "arroba" in name
IsPerArroba(name) ==
    Contains(name, <<"/","a","r","r","o","b","a">>) \/ Contains(name, <<"a","r","r","o","b","a">>)

\* "/kg" in name or " kg" in name
IsPerKg(name) == Contains(name, <<"/","k","g">>) \/ Contains(name, <<" ","k","g">>)

\* RowStep with a slip: a row whose price is not a number is skipped.
RowStep_SkipsUnparsed(st, row) ==
    LET cells == Cells(row)
    IN  IF Len(cells) < 2 \/ ~CanParse(cells[2]) THEN st
        ELSE LET name  == Lower(cells[1])
                 price == parse_price(cells[2])
             IN  IF IsBahia(name) THEN [st EXCEPT !.bahia_arroba = Some(price)]
                 ELSE IF IsPara(name)
                      THEN IF IsPerKg(name)
                           THEN [st EXCEPT !.para_kg = Some(price)]
                           ELSE [st EXCEPT !.para_arroba = Some(price)]
                      ELSE st

\* RowStep with a slip: the first matching row is kept, not the last.
RowStep_FirstWins(st, row) ==
    LET cells == Cells(row)
    IN  IF Len(cells) < 2 THEN st
        ELSE LET name  == Lower(cells[1])
                 price == parse_price(cells[2])
             IN  IF IsBahia(name)
                 THEN IF st.bahia_arroba = None
                      THEN [st EXCEPT !.bahia_arroba = Some(price)] ELSE st
                 ELSE IF IsPara(name)
                      THEN IF IsPerKg(name)
                           THEN IF st.para_kg = None
                                THEN [st EXCEPT !.para_kg = Some(price)] ELSE st
                           ELSE IF st.para_arroba = None
                                THEN [st EXCEPT !.para_arroba = Some(price)] ELSE st
                      ELSE st

\* One iteration of the loop: the locals after `row`.
RowStep(st, row) ==
    LET cells == Cells(row)
    IN  IF Len(cells) < 2 THEN st
        ELSE LET name  == Lower(cells[1])
                 price == parse_price(cells[2])
             IN  IF IsBahia(name) THEN [st EXCEPT !.bahia_arroba = Some(price)]
                 ELSE IF IsPara(name)
                      THEN IF IsPerKg(name)
                           THEN [st EXCEPT !.para_kg = Some(price)]
                           ELSE IF IsPerArroba(name)
                           THEN [st EXCEPT !.para_arroba = Some(price)]
                           ELSE [st EXCEPT !.para_arroba = Some(price)]
                      ELSE st

\* The locals after the whole loop.
AfterRows(rs) ==
    LET f[i \in 0..Len(rs)] == IF i = 0 THEN NoPrices ELSE RowStep(f[i - 1], rs[i])
    IN  f[Len(rs)]

\* Bahia: kg = arroba / 15.0, saca = kg * 60.0, or all None.
BahiaConversions(arroba) ==
    IF arroba # None
    THEN [arroba |-> arroba,
          kg     |-> Some(arroba[1] \div ArrobaKg),
          saca   |-> Some((arroba[1] \div ArrobaKg) * SacaKg)]
    ELSE [arroba |-> None, kg |-> None, saca |-> None]

\* ParaConversions with a slip: a price quoted per kg is not converted to
\* the arroba.
ParaConversions_NoArrobaFromKg(arroba, kg) ==
    LET k == IF arroba # None THEN Some(arroba[1] \div ArrobaKg)
             ELSE IF kg # None THEN kg
             ELSE None
    IN  [arroba |-> arroba,
         kg     |-> k,
         saca   |-> IF k # None THEN Some(k[1] * SacaKg) ELSE None]

\* Para: the arroba price, when there is one, decides; else the kg price.
ParaConversions(arroba, kg) ==
    LET a == IF arroba # None THEN arroba
             ELSE IF kg # None THEN Some(kg[1] * ArrobaKg)
             ELSE None
        k == IF arroba # None THEN Some(arroba[1] \div ArrobaKg)
             ELSE IF kg # None THEN kg
             ELSE None
    IN  [arroba |-> a,
         kg     |-> k,
         saca   |-> IF k # None THEN Some(k[1] * SacaKg) ELSE None]

\* The dictionary fetch_cacau_prices returns for a page with the rows rs.
fetch_cacau_prices(rs) ==
    LET st == AfterRows(rs)
    IN  [bahia |-> BahiaConversions(st.bahia_arroba),
         para  |-> ParaConversions(st.para_arroba, st.para_kg)]

-----------------------------------------------------------------------------
(* is_market_open and update_prices_json *)

\* now.weekday(), Monday = 0; day 1 is a Monday.
Weekday(d) == (d - 1) % 7

is_market_open(t) == Weekday(t.date) < 5 /\ 8 <= t.hour /\ t.hour < 17

\* The object update_prices_json writes to data/prices.json.
update_prices_json(p, t) ==
    [ultima_atualizacao |-> <<t.date, t.hour>>,
     data_formatada     |-> t.date,
     hora_formatada     |-> t.hour,
     pregao_aberto      |-> is_market_open(t),
     fonte              |-> "raspagem_automatizada",
     cacau |-> [bahia |-> [preco |-> p.bahia.arroba, unidade |-> "arroba",
                           peso_kg |-> ArrobaKg, moeda |-> "BRL",
                           preco_kg |-> p.bahia.kg, preco_saca |-> p.bahia.saca],
                para  |-> [preco |-> p.para.arroba, unidade |-> "arroba",
                           peso_kg |-> ArrobaKg, moeda |-> "BRL",
                           preco_kg |-> p.para.kg, preco_saca |-> p.para.saca]]]

-----------------------------------------------------------------------------
(* update_history_json *)

(* What data/precos.json holds.  kind is                                   *)
(*   "absent"        no file;                                              *)
(*   "invalid_json"  text json.load rejects;                               *)
(*   "not_iterable"  valid JSON that is a number, true, false or null;     *)
(*   "non_dict_items" valid JSON whose items are not objects (a list of    *)
(*                   numbers, a non-empty object, a non-empty string);     *)
(*   "list"          a JSON list of objects, recs, each a record that may  *)
(*                   lack fields.                                          *)
AbsentFile == [kind |-> "absent", recs |-> << >>]

ListFile(rs) == [kind |-> "list", recs |-> rs]

\* r.get(k) == v
GetIs(r, k, v) == k \in DOMAIN r /\ r[k] = v

\* The strings that occur as tipo, in the order Python compares them.
TipoOrder == <<"arabica", "bahia", "para">>

TipoOrd(t) == CHOOSE i \in 1..Len(TipoOrder) : TipoOrder[i] = t

\* Tuple comparison a < b of two keys (date, second component).
KeyLess(a, b) == a[1] < b[1] \/ (a[1] = b[1] /\ a[2] < b[2])

\* key=lambda r: (r["referente_a"], r["tipo"])
KeyDateTipo(r) == <<r.referente_a, TipoOrd(r.tipo)>>

\* key=lambda r: (r["referente_a"], 0 if r["tipo"] == "bahia" else 1)
KeyDateRegion(r) == <<r.referente_a, IF r.tipo = "bahia" THEN 0 ELSE 1>>

\* x inserted in a list sorted descending, after every item whose key is
\* not less than x's: items of equal keys keep the order they came in.
\* key is the key function, as a function on the records.
InsertDesc(sorted, x, key) ==
    LET less == { i \in 1..Len(sorted) : KeyLess(key[sorted[i]], key[x]) }
        pos  == IF less = {} THEN Len(sorted) + 1
                ELSE CHOOSE i \in less : \A j \in less : i <= j
    IN  SubSeq(sorted, 1, pos - 1) \o <<x>> \o SubSeq(sorted, pos, Len(sorted))

\* sorted(s, key=key, reverse=True): descending and stable.
SortedDesc(s, key) ==
    LET f[i \in 0..Len(s)] == IF i = 0 THEN << >> ELSE InsertDesc(f[i - 1], s[i], key)
    IN  f[Len(s)]

\* sorted(filtrados, key=lambda r: (r["referente_a"], r["tipo"]), reverse=True)
SortByDateTipo(s) == SortedDesc(s, [r \in Range(s) |-> KeyDateTipo(r)])

\* The record appended for a region.
NewRecord(tipo, p, t) ==
    [produto     |-> "cacau",
     tipo        |-> tipo,
     valor       |-> p[tipo].arroba,
     referente_a |-> t.date,
     coletado_em |-> <<t.date, t.hour>>,
     unidade     |-> "arroba"]

\* registros: what the function holds after the load; the failure of
\* json.load is caught.
Registros(file) == IF file.kind = "list" THEN file.recs ELSE << >>

\* Filtrados with a slip: today's records are not removed.
Filtrados_KeepsToday(regs, hoje) == regs

\* Filtrados with a slip: every record of today is removed, whatever its
\* product.
Filtrados_ByDateOnly(regs, hoje) ==
    SelectSeq(regs, LAMBDA r : ~GetIs(r, "referente_a", hoje))

\* filtrados before the two appends: the records of today's cacau removed.
Filtrados(regs, hoje) ==
    SelectSeq(regs, LAMBDA r : ~(GetIs(r, "referente_a", hoje) /\ GetIs(r, "produto", "cacau")))

\* KeepRecent with a slip: < for <=, one date fewer is kept.
KeepRecent_OneFewer(sorted) ==
    LET f[i \in 0..Len(sorted)] ==
          IF i = 0 THEN [seen |-> << >>, result |-> << >>]
          ELSE LET st   == f[i - 1]
                   date == sorted[i].referente_a
                   seen == IF \E j \in 1..Len(st.seen) : st.seen[j] = date
                           THEN st.seen ELSE Append(st.seen, date)
               IN  [seen   |-> seen,
                    result |-> IF Len(seen) < KeepDates
                               THEN Append(st.result, sorted[i]) ELSE st.result]
    IN  f[Len(sorted)].result

\* The loop that keeps the records of the first 10 dates it sees.
KeepRecent(sorted) ==
    LET f[i \in 0..Len(sorted)] ==
          IF i = 0 THEN [seen |-> << >>, result |-> << >>]
          ELSE LET st   == f[i - 1]
                   date == sorted[i].referente_a
                   seen == IF \E j \in 1..Len(st.seen) : st.seen[j] = date
                           THEN st.seen ELSE Append(st.seen, date)
               IN  [seen   |-> seen,
                    result |-> IF Len(seen) <= KeepDates
                               THEN Append(st.result, sorted[i]) ELSE st.result]
    IN  f[Len(sorted)].result

\* The final result.sort(...).
FinalSort(result) == SortedDesc(result, [r \in Range(result) |-> KeyDateRegion(r)])

\* One call: ok is whether it returned (FALSE: an exception left it, before
\* the file was opened for writing), file is what the file then holds.
update_history_json(file, p, t) ==
    LET raisesIter == file.kind \in {"not_iterable", "non_dict_items"}
        filtrados  == Filtrados(Registros(file), t.date)
                        \o <<NewRecord("bahia", p, t), NewRecord("para", p, t)>>
        raisesKey  == \E i \in 1..Len(filtrados) :
                         ~({"referente_a", "tipo"} \subseteq DOMAIN filtrados[i])
    IN  IF raisesIter \/ raisesKey
        THEN [ok |-> FALSE, file |-> file]
        ELSE [ok |-> TRUE,
              file |-> ListFile(FinalSort(KeepRecent(SortByDateTipo(filtrados))))]

-----------------------------------------------------------------------------
(* The inputs: the texts of the widget's table, the clock, the history file. *)

T_BahiaAt == <<"B","a","h","i","a"," ","/","@">>

T_ParaKg == <<"P","a","r","á"," ","/"," ","K","g">>

T_ParaArroba == <<"P","a","r","á"," ","/","a","r","r","o","b","a">>

T_PARA == <<"P","A","R","A">>

T_Praca == <<"P","r","a","ç","a">>

T_Preco == <<"P","r","e","ç","o">>

T_1920 == <<"1",".","9","2","0",",","0","0">>

T_1935 == <<" ","1",".","9","3","5",",","5"," ">>

T_1500 == <<"1",".","5","0","0",",","0","0">>

T_128 == <<"1","2","8",",","0","0">>

T_ND == <<"n","/","d">>

T_Pct == <<"1",",","2","%">>

\* The rows a table is made of: the two rows of the widget, a Para row
\* quoted per arroba, rows whose price is empty or not a number, a header
\* row, a row of one cell, a second Bahia row.
RowChoices ==
    { <<T_BahiaAt, T_1920, T_Pct>>,
      <<T_ParaKg, T_128, T_Pct>>,
      <<T_ParaArroba, T_1500>>,
      <<T_BahiaAt, << >>>>,
      <<T_ParaKg, T_ND>>,
      <<T_PARA, T_ND>>,
      <<T_Praca, T_Preco>>,
      <<T_BahiaAt>>,
      <<T_BahiaAt, T_1935>> }

\* The pages: every table of at most MaxRows rows.
Tables == UNION { [1..n -> RowChoices] : n \in 0..MaxRows }

\* The hours of the clock readings: one in market hours, one after.
Hours == {9, 18}

\* The clock readings: datetime.utcnow().
Nows == [date : 1..MaxDate, hour : Hours]

\* The clock readings of a run of main.
MainNows == { t \in Nows : (t.date = 1 /\ t.hour = 9) \/ (t.date = MaxDate /\ t.hour = 18) }

\* The readings handed to update_history_json: the widget's two rows, and
\* a page with a Bahia row only.
PriceInputs ==
    { fetch_cacau_prices(<< <<T_BahiaAt, T_1920, T_Pct>>, <<T_ParaKg, T_128, T_Pct>> >>),
      fetch_cacau_prices(<< <<T_BahiaAt, T_1935>> >>) }

\* A record the program wrote on day d, and a record of another product.
CacauRecord(tipo, d) ==
    [produto |-> "cacau", tipo |-> tipo, valor |-> Some(d * 1500),
     referente_a |-> d, coletado_em |-> <<d, 9>>, unidade |-> "arroba"]

CafeRecord(d) ==
    [produto |-> "cafe", tipo |-> "arabica", valor |-> Some(d * 3000),
     referente_a |-> d, coletado_em |-> <<d, 9>>, unidade |-> "saca"]

\* The records of days lo..hi, most recent day first, in the order the
\* program writes them; cafe is the set of days that also hold a record
\* of another product.
DayRecords(d, cafe) ==
    <<CacauRecord("para", d)>> \o (IF d \in cafe THEN <<CafeRecord(d)>> ELSE << >>)
        \o <<CacauRecord("bahia", d)>>

SeedRecords(lo, hi, cafe) ==
    LET f[d \in (lo - 1)..hi] == IF d < lo THEN << >> ELSE DayRecords(d, cafe) \o f[d - 1]
    IN  IF hi < lo THEN << >> ELSE f[hi]

\* The well-formed history files a run may find: a span of days, with or
\* without records of another product on its first and last day.
WellFormedFiles ==
    UNION { { ListFile(SeedRecords(span[1], span[2], {})),
              ListFile(SeedRecords(span[1], span[2], {span[1], span[2]})) } :
            span \in (1..MaxDate) \X (0..MaxDate) }

\* The corrupt history files: text that is not JSON, JSON that is no list of
\* objects, and lists with an object that lacks the fields.
CorruptFiles ==
    { [kind |-> "invalid_json", recs |-> << >>],
      [kind |-> "not_iterable", recs |-> << >>],
      [kind |-> "non_dict_items", recs |-> << >>],
      ListFile(<< [produto |-> "cacau", valor |-> Some(1500)] >>),
      ListFile(<< CacauRecord("bahia", 2), [produto |-> "cacau", referente_a |-> 1] >>) }

\* The file fails to load as a sequence of history records.
IsCorrupt(file) ==
    \/ file.kind \in {"invalid_json", "not_iterable", "non_dict_items"}
    \/ \E i \in 1..Len(file.recs) :
          ~({"produto", "tipo", "valor", "referente_a", "coletado_em", "unidade"}
               \subseteq DOMAIN file.recs[i])

\* The reading before any fetch.
Unset == [bahia |-> [arroba |-> None, kg |-> None, saca |-> None],
          para  |-> [arroba |-> None, kg |-> None, saca |-> None]]

-----------------------------------------------------------------------------
(* main: fetch, then the snapshot, then the history. *)

Init ==
    /\ rows \in Tables
    /\ now \in MainNows
    /\ prices = Unset
    /\ snapshot = None
    /\ hist = AbsentFile
    /\ prev = AbsentFile
    /\ pc = "fetch"
    /\ written = {}
    /\ nruns = 0

\* prices = fetch_cacau_prices(widget_url), the page fetched and parsed.
Fetch ==
    /\ pc = "fetch"
    /\ prices' = fetch_cacau_prices(rows)
    /\ pc' = "update_prices"
    /\ UNCHANGED <<rows, now, snapshot, hist, prev, written, nruns>>

\* requests.get or raise_for_status raises: main ends with the exception.
FetchFails ==
    /\ pc = "fetch"
    /\ pc' = "failed"
    /\ UNCHANGED <<rows, now, prices, snapshot, hist, prev, written, nruns>>

\* update_prices_json(prices, now)
UpdatePrices ==
    /\ pc = "update_prices"
    /\ snapshot' = Some(update_prices_json(prices, now))
    /\ written' = written \cup {"prices.json"}
    /\ pc' = "update_history"
    /\ UNCHANGED <<rows, now, prices, hist, prev, nruns>>

\* A call update_history_json(p, t) on the history file as it is.
HistoryRun(p, t) ==
    LET r == update_history_json(hist, p, t)
    IN  /\ prices' = p
        /\ now' = t
        /\ hist' = r.file
        /\ prev' = hist
        /\ nruns' = nruns + 1
        /\ written' = IF r.ok THEN written \cup {"precos.json"} ELSE written
        /\ pc' = IF r.ok THEN "done" ELSE "failed"
        /\ UNCHANGED <<rows, snapshot>>

\* update_history_json(prices, now), the last call of main.
UpdateHistory ==
    /\ pc = "update_history"
    /\ HistoryRun(prices, now)

Next == Fetch \/ FetchFails \/ UpdatePrices \/ UpdateHistory

Spec == Init /\ [][Next]_vars

-----------------------------------------------------------------------------
(* Runs of update_history_json on a fresh store: any dates, in any order. *)

InitFresh ==
    /\ rows = << >>
    /\ now \in { t \in Nows : t.date = 1 /\ t.hour = 9 }
    /\ prices = Unset
    /\ snapshot = None
    /\ hist \in {AbsentFile, ListFile(<< >>)}
    /\ prev = AbsentFile
    /\ pc = "update_history"
    /\ written = {}
    /\ nruns = 0

AnyRun ==
    /\ nruns < MaxRuns
    /\ \E p \in PriceInputs, t \in Nows : HistoryRun(p, t)

NextFresh == AnyRun

SpecFresh == InitFresh /\ [][NextFresh]_vars

-----------------------------------------------------------------------------
(* One run of update_history_json on any history file, and the same run   *)
(* once more.                                                              *)

InitHist ==
    /\ rows = << >>
    /\ now \in { t \in Nows : t.date = 1 /\ t.hour = 9 }
    /\ prices = Unset
    /\ snapshot = None
    /\ hist \in WellFormedFiles \cup CorruptFiles \cup {AbsentFile}
    /\ prev = AbsentFile
    /\ pc = "update_history"
    /\ written = {}
    /\ nruns = 0

FirstRun ==
    /\ nruns = 0
    /\ \E p \in PriceInputs, t \in Nows : HistoryRun(p, t)

SameRunAgain ==
    /\ nruns = 1
    /\ HistoryRun(prices, now)

NextHist == FirstRun \/ SameRunAgain

SpecHist == InitHist /\ [][NextHist]_vars

-----------------------------------------------------------------------------
(* Vocabulary of the properties. *)

\* The number of times r occurs in s.
Count(r, s) == Cardinality({ i \in 1..Len(s) : s[i] = r })

\* The distinct dates of a sequence of records.
DatesOf(s) == { s[i].referente_a : i \in 1..Len(s) }

\* The KeepDates most recent dates of a set of dates.
RecentDates(S) == { d \in S : Cardinality({ e \in S : e > d }) < KeepDates }

\* A run of update_history_json has returned; prev is the file it found,
\* hist the file it wrote, now and prices its arguments.
RunReturned == nruns >= 1 /\ pc = "done"

\* The records the run found.
Existing == Registros(prev)

\* r is a record of the run's date and product: the run supersedes it.
Superseded(r) == GetIs(r, "referente_a", now.date) /\ GetIs(r, "produto", "cacau")

\* The two records of the run.
NewBahia == NewRecord("bahia", prices, now)

NewPara == NewRecord("para", prices, now)

\* The merged set: existing minus superseded, plus the two new records.
Merged == SelectSeq(Existing, LAMBDA r : ~Superseded(r)) \o <<NewBahia, NewPara>>

\* fetch_cacau_prices has returned its reading.
Fetched == pc \in {"update_prices", "update_history", "done"}

\* Row i has two cells and its label names Bahia, or Para.
BahiaRow(i) == Len(rows[i]) >= 2 /\ IsBahia(Lower(Strip(rows[i][1])))

ParaRow(i) ==
    /\ Len(rows[i]) >= 2
    /\ ~IsBahia(Lower(Strip(rows[i][1])))
    /\ IsPara(Lower(Strip(rows[i][1])))

\* A Para row quoted per kg.
ParaKgRow(i) == ParaRow(i) /\ IsPerKg(Lower(Strip(rows[i][1])))

\* The last index of a set of row indices.
Last(I) == CHOOSE i \in I : \A j \in I : j <= i

BahiaRows == { i \in 1..Len(rows) : BahiaRow(i) }

ParaRows == { i \in 1..Len(rows) : ParaRow(i) }

ParaKgRows == { i \in 1..Len(rows) : ParaKgRow(i) }

ParaArrobaRows == ParaRows \ ParaKgRows

\* The Para row the reading comes from: the last row quoted per arroba (or
\* without a unit) when there is one, else the last row quoted per kg.
ParaSource == IF ParaArrobaRows # {} THEN Last(ParaArrobaRows) ELSE Last(ParaKgRows)

\* The price text of row i, as the loop reads it.
PriceText(i) == Strip(rows[i][2])

AllNull(u) == u.arroba = None /\ u.kg = None /\ u.saca = None

AllZero(u) == u.arroba = Some(0) /\ u.kg = Some(0) /\ u.saca = Some(0)

\* The three values are set and stand in the fixed ratios.
Consistent(u) ==
    /\ u.arroba # None /\ u.kg # None /\ u.saca # None
    /\ u.arroba[1] = u.kg[1] * ArrobaKg
    /\ u.saca[1] = u.kg[1] * SacaKg

\* The reading of a region derived from a price quoted per arroba, per kg.
FromArroba(u, text) == u.arroba = Some(parse_price(text)) /\ Consistent(u)

FromKg(u, text) == u.kg = Some(parse_price(text)) /\ Consistent(u)

-----------------------------------------------------------------------------
(* C1 - Starting from an absent or empty history file, after any sequence  *)
(* of runs of update_history_json (any dates, in any order, any prices),   *)
(* the history holds at most one record per (referente_a, tipo) pair.      *)
(* Checked under SpecFresh.                                                *)
C1_OneRecordPerDateAndRegion ==
    \A i, j \in 1..Len(hist.recs) :
        (hist.recs[i].referente_a = hist.recs[j].referente_a
           /\ hist.recs[i].tipo = hist.recs[j].tipo) => i = j

\* A later run for a date has replaced that date's records.
C1_Witness ==
    /\ nruns = 2 /\ pc = "done"
    /\ \E i \in 1..Len(prev.recs) : Superseded(prev.recs[i]) /\ Count(prev.recs[i], hist.recs) = 0
    /\ Count(NewBahia, hist.recs) = 1 /\ Count(NewPara, hist.recs) = 1

(* C2 - After every run of update_history_json the records written are     *)
(* sorted by referente_a descending and, within a date, the bahia record   *)
(* comes before the para record.  The code writes para first.              *)
C2_SortedBahiaBeforePara ==
    RunReturned =>
        \A i, j \in 1..Len(hist.recs) :
            i < j =>
              /\ hist.recs[i].referente_a >= hist.recs[j].referente_a
              /\ (hist.recs[i].referente_a = hist.recs[j].referente_a
                    => ~(hist.recs[i].tipo = "para" /\ hist.recs[j].tipo = "bahia"))

(* C3 - After every run of update_history_json the written history holds   *)
(* exactly the records of the merged set (existing minus superseded, plus  *)
(* the two new ones) whose date is among the 10 most recent distinct dates *)
(* of that set, so it never spans more than 10 dates.                      *)
(* Checked under SpecHist.                                                 *)
C3_KeepsTenMostRecentDates ==
    RunReturned =>
        LET keep == RecentDates(DatesOf(Merged))
        IN  /\ \A r \in Range(Merged) \cup Range(hist.recs) :
                  Count(r, hist.recs) = IF r.referente_a \in keep THEN Count(r, Merged) ELSE 0
            /\ Cardinality(DatesOf(hist.recs)) <= KeepDates

\* 12 dates with two records each give 20 records, the 10 most recent dates.
C3_Witness ==
    /\ nruns = 1 /\ pc = "done"
    /\ Cardinality(DatesOf(prev.recs)) = 12
    /\ Len(prev.recs) = 24
    /\ Len(hist.recs) = 20
    /\ DatesOf(hist.recs) = 3..12

(* C4 - update_history_json is idempotent: run twice in a row with the     *)
(* same prices and timestamp, it leaves the file as one run leaves it; and *)
(* the run's date holds exactly the run's two cacau records (one bahia,    *)
(* one para) when that date is among the 10 most recent distinct dates of  *)
(* the merged history, and no record at all when it is older.              *)
(* Checked under SpecHist.                                                 *)
C4_Idempotent ==
    (nruns = 2 /\ pc = "done") =>
        LET onDate == SelectSeq(hist.recs, LAMBDA r : r.referente_a = now.date)
            cacau  == SelectSeq(onDate, LAMBDA r : r.produto = "cacau")
        IN  /\ hist = prev
            /\ IF now.date \in RecentDates(DatesOf(Merged))
               THEN /\ Len(cacau) = 2
                    /\ Count(NewBahia, cacau) = 1
                    /\ Count(NewPara, cacau) = 1
               ELSE onDate = << >>

\* The same run twice, on a history of several dates, the date retained.
C4_Witness ==
    /\ nruns = 2 /\ pc = "done"
    /\ Cardinality(DatesOf(hist.recs)) = KeepDates
    /\ Count(NewBahia, hist.recs) = 1 /\ Count(NewPara, hist.recs) = 1

\* C4 as first stated: the run's date always holds exactly two records,
\* one bahia and one para; read on the histories that hold cacau records
\* only, where a record of another product cannot be the third.
C4_AsStated ==
    (nruns = 2 /\ pc = "done" /\ \A i \in 1..Len(hist.recs) : hist.recs[i].produto = "cacau") =>
        LET onDate == SelectSeq(hist.recs, LAMBDA r : r.referente_a = now.date)
        IN  /\ hist = prev
            /\ Len(onDate) = 2
            /\ \E i \in 1..2 : onDate[i].tipo = "bahia"
            /\ \E i \in 1..2 : onDate[i].tipo = "para"

(* C5 - A corrupt history file never aborts the run: when the file fails   *)
(* to load as a sequence of history records, update_history_json treats    *)
(* the store as empty, returns, and writes exactly the run's two records.  *)
(* The code recovers from text that is not JSON only.                      *)
C5_CorruptHistoryRecovered ==
    (nruns = 1 /\ IsCorrupt(prev)) =>
        /\ pc = "done"
        /\ Len(hist.recs) = 2
        /\ Count(NewBahia, hist.recs) = 1
        /\ Count(NewPara, hist.recs) = 1

(* C6 - A page without the expected rows (no row at all, or no row of two  *)
(* cells naming a region) makes main fail and write neither prices.json    *)
(* nor precos.json.  The code writes both, with null prices.               *)
C6_MarkupFailureIsFatal ==
    (BahiaRows = {} /\ ParaRows = {}) => (written = {} /\ pc \in {"fetch", "failed"})

(* C7 - The reading fetch_cacau_prices returns is never partially          *)
(* populated: for each region arroba, kg and saca are all null, or all set *)
(* with kg = arroba / 15 and saca = kg * 60.                               *)
C7_ReadingConsistent ==
    Fetched =>
        /\ AllNull(prices.bahia) \/ Consistent(prices.bahia)
        /\ AllNull(prices.para) \/ Consistent(prices.para)

\* A Para price quoted per kg, converted, beside a Bahia that is null.
C7_Witness ==
    /\ Fetched
    /\ AllNull(prices.bahia)
    /\ ParaArrobaRows = {} /\ ParaKgRows # {}
    /\ prices.para.kg = Some(128 * 1500)
    /\ prices.para.arroba = Some(1920 * 1500)
    /\ prices.para.saca = Some(7680 * 1500)

(* C8 - If the price text of the row a region's reading comes from (Bahia: *)
(* the last Bahia row; Para: the last row quoted per arroba or without a   *)
(* unit, else the last row quoted per kg) is empty or not a number, the    *)
(* region's arroba, kg and saca are all 0.0, the value parse_price returns *)
(* for such a text; they are not null.                                     *)
C8_UnparseableGivesZero ==
    Fetched =>
        /\ (BahiaRows # {} /\ ~CanParse(PriceText(Last(BahiaRows)))) => AllZero(prices.bahia)
        /\ (ParaRows # {} /\ ~CanParse(PriceText(ParaSource))) => AllZero(prices.para)

\* Both regions read from a row whose price is not a number.
C8_Witness ==
    /\ Fetched
    /\ BahiaRows # {} /\ ~CanParse(PriceText(Last(BahiaRows)))
    /\ ParaRows # {} /\ ~CanParse(PriceText(ParaSource))
    /\ AllZero(prices.bahia) /\ AllZero(prices.para)

\* C8 as first stated: such a region's three values are all null.
C8_AsStated ==
    Fetched =>
        /\ (BahiaRows # {} /\ ~CanParse(PriceText(Last(BahiaRows)))) => AllNull(prices.bahia)
        /\ (ParaRows # {} /\ ~CanParse(PriceText(Last(ParaRows)))) => AllNull(prices.para)

(* C9 - Bahia's reading is derived from the last Bahia row.  Para's is     *)
(* derived from the last Para row quoted per arroba (or without a unit),   *)
(* wherever it stands among the rows quoted per kg, and from the last row  *)
(* quoted per kg only when no Para row is quoted per arroba; the other     *)
(* matching rows have no effect.                                           *)
C9_SourceRowDecides ==
    Fetched =>
        /\ BahiaRows # {} => FromArroba(prices.bahia, PriceText(Last(BahiaRows)))
        /\ BahiaRows = {} => AllNull(prices.bahia)
        /\ ParaArrobaRows # {} => FromArroba(prices.para, PriceText(Last(ParaArrobaRows)))
        /\ (ParaArrobaRows = {} /\ ParaKgRows # {})
              => FromKg(prices.para, PriceText(Last(ParaKgRows)))
        /\ ParaRows = {} => AllNull(prices.para)

\* A Para row quoted per arroba followed by one quoted per kg: the reading
\* is the arroba row's.
C9_Witness ==
    /\ Fetched
    /\ ParaArrobaRows # {} /\ ParaKgRows # {}
    /\ Last(ParaArrobaRows) < Last(ParaKgRows)
    /\ CanParse(PriceText(Last(ParaKgRows)))
    /\ prices.para.arroba = Some(1500 * 1500)
    /\ prices.para.kg = Some(100 * 1500)

\* C9 as first stated: the last row matching a region decides, in its unit.
C9_AsStated ==
    Fetched =>
        /\ BahiaRows # {} => FromArroba(prices.bahia, PriceText(Last(BahiaRows)))
        /\ ParaRows # {} =>
              IF ParaKgRow(Last(ParaRows))
              THEN FromKg(prices.para, PriceText(Last(ParaRows)))
              ELSE FromArroba(prices.para, PriceText(Last(ParaRows)))

(* C10 - A run of update_history_json for date D keeps, unchanged, every   *)
(* existing record that is not a cacau record dated D and whose date is    *)
(* among the 10 most recent distinct dates after the merge: it removes     *)
(* only the cacau records dated D and the records of older dates, and      *)
(* keeps the records of another product dated D.                           *)
(* Checked under SpecHist.                                                 *)
C10_Frame ==
    RunReturned =>
        LET keep == RecentDates(DatesOf(Existing) \cup {now.date})
        IN  \A r \in Range(Existing) :
                (r.referente_a \in keep /\ ~Superseded(r))
                    => Count(r, hist.recs) = Count(r, Existing)

\* A run that superseded the cacau records of its date, kept the record of
\* another product of that date, and dropped the records of an older date.
C10_Witness ==
    /\ nruns = 1 /\ pc = "done"
    /\ \E i \in 1..Len(prev.recs) :
          /\ Superseded(prev.recs[i])
          /\ Count(prev.recs[i], hist.recs) = 0
    /\ \E i \in 1..Len(prev.recs) :
          /\ prev.recs[i].referente_a = now.date
          /\ prev.recs[i].produto = "cafe"
          /\ Count(prev.recs[i], hist.recs) = 1
    /\ \E i \in 1..Len(prev.recs) :
          /\ prev.recs[i].referente_a < now.date
          /\ Count(prev.recs[i], hist.recs) = 0
    /\ \E i \in 1..Len(prev.recs) :
          /\ prev.recs[i].referente_a < now.date
          /\ Count(prev.recs[i], hist.recs) = 1

====
